---- MODULE Spec2Model ----
(***************************************************************************)
(* Model of src-tauri/src/main.rs: the startup shell that composes the     *)
(* Tauri plugins into a builder and launches the host runtime.             *)
(*                                                                         *)
(* main() is modelled statement by statement (pc is the position in main). *)
(* The host runtime's run() is an external call: the model gives it the    *)
(* outcomes its Result<()> return type and blocking nature allow: it       *)
(* fails at start-up (Err), or it enters its event loop, which processes   *)
(* events for as long as the session lasts and, if it ever ends, returns   *)
(* Ok(()).                                                                 *)
(***************************************************************************)
EXTENDS Integers, Sequences, FiniteSets

(* Events the host's event loop is followed for (the loop itself is unbounded). *)
MaxEvents == 2

(* target_os values a build of the application can have. *)
TargetOS == {"windows", "macos", "linux", "freebsd", "android", "ios"}

(* Errors run() can report (variants of tauri::Error raised while starting). *)
StartupError == {"Runtime", "Setup", "PluginInitialization"}

(* Exit status of a Rust process whose main thread panicked. *)
PanicExitCode == 101

(* The message given to expect(). *)
ExpectMsg == "error while running tauri application"

VARIABLES
    target_os,        \* the build target (cfg target_os)
    pc,               \* position in main()
    builder,          \* plugins registered on the tauri::Builder, in call order
    owner,            \* who owns the builder value: "none", "main" or "runtime"
    cfg_evals,        \* how many times the cfg predicate of line 10 was evaluated
    cfg_value,        \* its value: "unset", "desktop" or "mobile"
    context,          \* "none" or "generated" (tauri::generate_context!())
    run_calls,        \* number of calls of Builder::run
    handed,           \* the plugin list run() received
    run_result,       \* "none", "Ok" or the StartupError run() returned
    events,           \* events the host's loop has processed
    panic_message,    \* the panic payload, << >> while main has not panicked
    exited,           \* the process has ended
    exit_status       \* its exit status (meaningful when exited)

vars == <<target_os, pc, builder, owner, cfg_evals, cfg_value, context,
          run_calls, handed, run_result, events, panic_message, exited,
          exit_status>>

(* ---- pure helpers ---- *)

(* #[cfg(not(any(target_os = "android", target_os = "ios")))] with one arm missing *)
NotMobile_android_only(os) == ~(os = "android")

(* #[cfg(not(any(target_os = "android", target_os = "ios")))] *)
NotMobile(os) == ~(os = "android" \/ os = "ios")

(* a registration that puts the plugin in front of the earlier ones *)
Plugin_prepend(b, p) == <<p>> \o b

(* Builder::plugin(self, p): appends the plugin to the builder's list *)
Plugin(b, p) == Append(b, p)

(* ---- initial state: the process before main() runs ---- *)

Init ==
    /\ target_os \in TargetOS
    /\ pc = "start"
    /\ builder = << >>
    /\ owner = "none"
    /\ cfg_evals = 0
    /\ cfg_value = "unset"
    /\ context = "none"
    /\ run_calls = 0
    /\ handed = << >>
    /\ run_result = "none"
    /\ events = 0
    /\ panic_message = << >>
    /\ exited = FALSE
    /\ exit_status = 0

(* ---- main(): composition ---- *)

(* line 5: tauri::Builder::default() *)
BuilderDefault ==
    /\ pc = "start"
    /\ pc' = "plugin_dialog"
    /\ builder' = << >>
    /\ owner' = "main"
    /\ UNCHANGED <<target_os, cfg_evals, cfg_value, context, run_calls, handed,
                   run_result, events, panic_message, exited, exit_status>>

(* line 6: .plugin(tauri_plugin_dialog::init()) *)
PluginDialog ==
    /\ pc = "plugin_dialog"
    /\ owner = "main"
    /\ builder' = Plugin(builder, "dialog")
    /\ pc' = "plugin_fs"
    /\ UNCHANGED <<target_os, owner, cfg_evals, cfg_value, context, run_calls,
                   handed, run_result, events, panic_message, exited, exit_status>>

(* line 7: .plugin(tauri_plugin_fs::init()) *)
PluginFs ==
    /\ pc = "plugin_fs"
    /\ owner = "main"
    /\ builder' = Plugin(builder, "fs")
    /\ pc' = "plugin_opener"
    /\ UNCHANGED <<target_os, owner, cfg_evals, cfg_value, context, run_calls,
                   handed, run_result, events, panic_message, exited, exit_status>>

(* line 8: .plugin(tauri_plugin_opener::init()); the value is bound to builder *)
PluginOpener ==
    /\ pc = "plugin_opener"
    /\ owner = "main"
    /\ builder' = Plugin(builder, "opener")
    /\ pc' = "cfg"
    /\ UNCHANGED <<target_os, owner, cfg_evals, cfg_value, context, run_calls,
                   handed, run_result, events, panic_message, exited, exit_status>>

(* the cfg predicate evaluated again before it is applied *)
CfgGate_twice ==
    /\ pc = "cfg"
    /\ cfg_evals' = cfg_evals + 1
    /\ cfg_value' = IF NotMobile(target_os) THEN "desktop" ELSE "mobile"
    /\ pc' = IF cfg_evals = 0 THEN "cfg"
             ELSE IF NotMobile(target_os) THEN "plugin_updater" ELSE "generate_context"
    /\ UNCHANGED <<target_os, builder, owner, context, run_calls, handed,
                   run_result, events, panic_message, exited, exit_status>>

(* the gate that also lets main return with the three plugins only *)
CfgGate_return ==
    /\ pc = "cfg"
    /\ cfg_evals' = cfg_evals + 1
    /\ cfg_value' = IF NotMobile(target_os) THEN "desktop" ELSE "mobile"
    /\ \/ /\ pc' = IF NotMobile(target_os) THEN "plugin_updater" ELSE "generate_context"
          /\ UNCHANGED <<exited, exit_status>>
       \/ /\ pc' = "returned"
          /\ exited' = TRUE
          /\ exit_status' = 0
    /\ UNCHANGED <<target_os, builder, owner, context, run_calls, handed,
                   run_result, events, panic_message>>

(* line 10: #[cfg(not(any(target_os = "android", target_os = "ios")))]     *)
(* decides whether the block of lines 11-13 is part of main                *)
CfgGate ==
    /\ pc = "cfg"
    /\ cfg_evals' = cfg_evals + 1
    /\ cfg_value' = IF NotMobile(target_os) THEN "desktop" ELSE "mobile"
    /\ pc' = IF NotMobile(target_os) THEN "plugin_updater" ELSE "generate_context"
    /\ UNCHANGED <<target_os, builder, owner, context, run_calls, handed,
                   run_result, events, panic_message, exited, exit_status>>

(* lines 11-13: builder = builder.plugin(tauri_plugin_updater::Builder::new().build()) *)
PluginUpdater ==
    /\ pc = "plugin_updater"
    /\ owner = "main"
    /\ builder' = Plugin(builder, "updater")
    /\ pc' = "generate_context"
    /\ UNCHANGED <<target_os, owner, cfg_evals, cfg_value, context, run_calls,
                   handed, run_result, events, panic_message, exited, exit_status>>

(* line 16: tauri::generate_context!(), the argument of run *)
GenerateContext ==
    /\ pc = "generate_context"
    /\ context' = "generated"
    /\ pc' = "call_run"
    /\ UNCHANGED <<target_os, builder, owner, cfg_evals, cfg_value, run_calls,
                   handed, run_result, events, panic_message, exited, exit_status>>

(* ---- main(): launch ---- *)

(* run called as soon as the gate has been passed, before the updater block *)
Run_early ==
    /\ pc \in {"plugin_updater", "call_run"}
    /\ owner = "main"
    /\ run_calls' = run_calls + 1
    /\ handed' = builder
    /\ owner' = "runtime"
    /\ pc' = "run"
    /\ UNCHANGED <<target_os, builder, cfg_evals, cfg_value, context, run_result,
                   events, panic_message, exited, exit_status>>

(* lines 15-16: builder.run(context): the builder is moved into the call *)
Run ==
    /\ pc = "call_run"
    /\ owner = "main"
    /\ run_calls' = run_calls + 1
    /\ handed' = builder
    /\ owner' = "runtime"
    /\ pc' = "run"
    /\ UNCHANGED <<target_os, builder, cfg_evals, cfg_value, context, run_result,
                   events, panic_message, exited, exit_status>>

(* ---- the host runtime, inside run() ---- *)

(* line 16: run() cannot start the application and returns Err(e) *)
RunFails ==
    /\ pc = "run"
    /\ \E e \in StartupError : run_result' = e
    /\ pc' = "expect"
    /\ UNCHANGED <<target_os, builder, owner, cfg_evals, cfg_value, context,
                   run_calls, handed, events, panic_message, exited, exit_status>>

(* line 16: run() has started the application and blocks in its event loop *)
RunEnterLoop ==
    /\ pc = "run"
    /\ pc' = "event_loop"
    /\ UNCHANGED <<target_os, builder, owner, cfg_evals, cfg_value, context,
                   run_calls, handed, run_result, events, panic_message, exited,
                   exit_status>>

(* line 16: the blocked run() call dispatches one event *)
RunEvent ==
    /\ pc = "event_loop"
    /\ events < MaxEvents
    /\ events' = events + 1
    /\ UNCHANGED <<target_os, pc, builder, owner, cfg_evals, cfg_value, context,
                   run_calls, handed, run_result, panic_message, exited,
                   exit_status>>

(* line 16: the event loop ends and run() returns Ok(()) *)
RunReturnsOk ==
    /\ pc = "event_loop"
    /\ run_result' = "Ok"
    /\ pc' = "expect"
    /\ UNCHANGED <<target_os, builder, owner, cfg_evals, cfg_value, context,
                   run_calls, handed, events, panic_message, exited, exit_status>>

(* ---- main(): the result of run ---- *)

(* expect_err in place of expect: Ok is the fatal case *)
ExpectOk_inverted ==
    /\ pc = "expect"
    /\ run_result = "Ok"
    /\ panic_message' = <<ExpectMsg, run_result>>
    /\ pc' = "panicked"
    /\ exited' = TRUE
    /\ exit_status' = PanicExitCode
    /\ UNCHANGED <<target_os, builder, owner, cfg_evals, cfg_value, context,
                   run_calls, handed, run_result, events>>

(* line 17-18: expect() on Ok(()) yields (), main returns, the process exits 0 *)
ExpectOk ==
    /\ pc = "expect"
    /\ run_result = "Ok"
    /\ pc' = "returned"
    /\ exited' = TRUE
    /\ exit_status' = 0
    /\ UNCHANGED <<target_os, builder, owner, cfg_evals, cfg_value, context,
                   run_calls, handed, run_result, events, panic_message>>

(* the error answered by calling run again *)
ExpectErr_retry ==
    /\ pc = "expect"
    /\ run_result \in StartupError
    /\ pc' = "call_run"
    /\ owner' = "main"
    /\ run_result' = "none"
    /\ UNCHANGED <<target_os, builder, cfg_evals, cfg_value, context, run_calls,
                   handed, events, panic_message, exited, exit_status>>

(* the error dropped (let _ = ...): main returns as if run had succeeded *)
ExpectErr_swallow ==
    /\ pc = "expect"
    /\ run_result \in StartupError
    /\ pc' = "returned"
    /\ exited' = TRUE
    /\ exit_status' = 0
    /\ UNCHANGED <<target_os, builder, owner, cfg_evals, cfg_value, context,
                   run_calls, handed, run_result, events, panic_message>>

(* the error answered by composing again from the first plugin *)
ExpectErr_recompose ==
    /\ pc = "expect"
    /\ run_result \in StartupError
    /\ pc' = "plugin_dialog"
    /\ builder' = << >>
    /\ owner' = "main"
    /\ run_result' = "none"
    /\ cfg_evals' = 0
    /\ run_calls' = 0
    /\ UNCHANGED <<target_os, cfg_value, context, handed, events, panic_message,
                   exited, exit_status>>

(* the handed-over plugin list changed on the failure path before the panic *)
ExpectErr_touch ==
    /\ pc = "expect"
    /\ run_result \in StartupError
    /\ panic_message' = <<ExpectMsg, run_result>>
    /\ handed' = Tail(handed)
    /\ pc' = "panicked"
    /\ exited' = TRUE
    /\ exit_status' = PanicExitCode
    /\ UNCHANGED <<target_os, builder, owner, cfg_evals, cfg_value, context,
                   run_calls, run_result, events>>

(* line 17: expect() on Err(e) panics with "<msg>: <e:?>"; the process ends *)
(* with the panic exit status                                              *)
ExpectErr ==
    /\ pc = "expect"
    /\ run_result \in StartupError
    /\ panic_message' = <<ExpectMsg, run_result>>
    /\ pc' = "panicked"
    /\ exited' = TRUE
    /\ exit_status' = PanicExitCode
    /\ UNCHANGED <<target_os, builder, owner, cfg_evals, cfg_value, context,
                   run_calls, handed, run_result, events>>

Next ==
    \/ BuilderDefault
    \/ PluginDialog
    \/ PluginFs
    \/ PluginOpener
    \/ CfgGate
    \/ PluginUpdater
    \/ GenerateContext
    \/ Run
    \/ RunFails
    \/ RunEnterLoop
    \/ RunEvent
    \/ RunReturnsOk
    \/ ExpectOk
    \/ ExpectErr

Spec == Init /\ [][Next]_vars

(* The steps of main are sequential code and always proceed; a call of run *)
(* either fails or reaches its event loop.  Nothing forces the event loop  *)
(* to dispatch or to end.                                                  *)
FairSpec ==
    /\ Spec
    /\ WF_vars(BuilderDefault)
    /\ WF_vars(PluginDialog)
    /\ WF_vars(PluginFs)
    /\ WF_vars(PluginOpener)
    /\ WF_vars(CfgGate)
    /\ WF_vars(PluginUpdater)
    /\ WF_vars(GenerateContext)
    /\ WF_vars(Run)
    /\ WF_vars(RunFails \/ RunEnterLoop)
    /\ WF_vars(ExpectOk)
    /\ WF_vars(ExpectErr)

(* ---- vocabulary of the properties ---- *)

(* positions of main between the builder's construction and the call of run *)
ComposingPcs == {"plugin_dialog", "plugin_fs", "plugin_opener", "cfg",
                 "plugin_updater", "generate_context", "call_run"}

(* The bootstrap phase at a position of main.  Running covers the session  *)
(* from the start of the event loop to its normal end (run returning Ok    *)
(* and main returning); an Err that expect has not yet turned into the     *)
(* panic is still Launching.                                               *)
Phase ==
    CASE pc = "start" -> "Unstarted"
      [] pc \in ComposingPcs -> "Composing"
      [] pc = "run" -> "Launching"
      [] pc = "event_loop" -> "Running"
      [] pc = "expect" -> IF run_result = "Ok" THEN "Running" ELSE "Launching"
      [] pc = "returned" -> "Running"
      [] pc = "panicked" -> "Failed"

Rank(ph) ==
    CASE ph = "Unstarted" -> 0
      [] ph = "Composing" -> 1
      [] ph = "Launching" -> 2
      [] ph = "Running" -> 3
      [] ph = "Failed" -> 3

Members(seq) == {seq[i] : i \in 1..Len(seq)}

IsPrefix(a, b) == Len(a) <= Len(b) /\ SubSeq(b, 1, Len(a)) = a

DesktopFamily == target_os \notin {"android", "ios"}

ExpectedSet ==
    IF DesktopFamily THEN <<"dialog", "fs", "opener", "updater">>
    ELSE <<"dialog", "fs", "opener">>

HandedOff == run_calls >= 1

(* ---- C1 ---- *)
(* C1: when the composition set is handed to run, the updater is in it if  *)
(* and only if the target is neither android nor ios; on android and ios   *)
(* main never reaches the updater registration and the builder never       *)
(* holds an updater.                                                       *)
C1_UpdaterIffDesktop ==
    /\ HandedOff => (("updater" \in Members(handed)) <=> DesktopFamily)
    /\ ~DesktopFamily => /\ "updater" \notin Members(builder)
                         /\ "updater" \notin Members(handed)
                         /\ pc # "plugin_updater"

C1_Witness ==
    /\ target_os = "ios"
    /\ pc = "run"
    /\ handed = <<"dialog", "fs", "opener">>

(* ---- C2 ---- *)
(* C2: the registrations received by the builder are dialog, fs, opener,   *)
(* then updater on a desktop target and nothing on a mobile one: the       *)
(* builder is always a prefix of that list, holds no plugin twice, holds   *)
(* the first three on every target once line 8 is done, and what run       *)
(* receives is that list, a function of the platform classification only.  *)
C2_RegistrationOrder ==
    /\ IsPrefix(builder, ExpectedSet)
    /\ Cardinality(Members(builder)) = Len(builder)
    /\ pc \notin {"start", "plugin_dialog", "plugin_fs", "plugin_opener"}
          => SubSeq(builder, 1, 3) = <<"dialog", "fs", "opener">>
    /\ HandedOff => handed = ExpectedSet

C2_Witness ==
    /\ target_os = "linux"
    /\ pc = "run"
    /\ handed = <<"dialog", "fs", "opener", "updater">>

(* ---- C3 ---- *)
(* C3: run is called at most once per process; once run has reported a     *)
(* StartupError no step calls run again, registers a plugin or goes        *)
(* anywhere but to the panic.                                              *)
C3_RunAtMostOnce ==
    [][/\ run_calls' <= 1
       /\ run_result \in StartupError
             => /\ run_calls' = run_calls
                /\ builder' = builder
                /\ pc' = "panicked"]_vars

C3_Witness ==
    /\ pc = "panicked"
    /\ run_calls = 1
    /\ run_result \in StartupError

C5_FailureIsFatal ==
    /\ [](run_result \in StartupError
            => /\ pc \in {"expect", "panicked"}
               /\ exited => /\ exit_status # 0
                            /\ panic_message # << >>
                            /\ Head(panic_message) # "")
    /\ [](pc = "panicked" => exited /\ exit_status # 0 /\ panic_message # << >>)
    /\ (run_result \in StartupError) ~> (exited /\ exit_status # 0)

C5_Witness ==
    /\ pc = "panicked"
    /\ exited
    /\ exit_status = PanicExitCode
    /\ panic_message = <<ExpectMsg, "Setup">>

(* ---- C6 ---- *)
(* C6: every step keeps the phase or advances it by one along Unstarted,   *)
(* Composing, Launching, then Running or Failed; Composing is not entered  *)
(* again once Launching has begun, Failed is terminal, and Running is not  *)
(* followed by Failed or Composing.                                        *)
C6_PhaseForward ==
    [][/\ Rank(Phase') - Rank(Phase) \in {0, 1}
       /\ Rank(Phase) >= 2 => Phase' # "Composing"
       /\ Phase = "Failed" => Phase' = "Failed"
       /\ Phase = "Running" => Phase' \notin {"Failed", "Composing"}]_vars

C6_Witness ==
    /\ Phase = "Failed"
    /\ target_os = "android"

(* ---- C7 ---- *)
(* C7: the hand-off gives run the builder's list, and from then on no step *)
(* changes that list, registers a plugin, calls run again or gives the     *)
(* builder back to main.                                                   *)
C7_HandedSetFrozen ==
    [][/\ (~HandedOff /\ run_calls' >= 1) => handed' = builder
       /\ HandedOff => /\ handed' = handed
                       /\ builder' = builder
                       /\ run_calls' = run_calls
                       /\ owner' = "runtime"]_vars

C7_Witness ==
    /\ pc = "event_loop"
    /\ events = MaxEvents
    /\ owner = "runtime"
    /\ Len(handed) = 4

(* ---- C8 ---- *)
(* C8: when run has been called, dialog, fs and opener are registered, the *)
(* cfg predicate has been evaluated and its updater decision applied, the  *)
(* context has been generated, and the builder holds nothing that run did  *)
(* not receive.                                                            *)
C8_RunAfterComposition ==
    HandedOff
        => /\ {"dialog", "fs", "opener"} \subseteq Members(handed)
           /\ cfg_evals >= 1
           /\ cfg_value \in {"desktop", "mobile"}
           /\ (cfg_value = "desktop") <=> ("updater" \in Members(handed))
           /\ context = "generated"
           /\ builder = handed

C8_Witness ==
    /\ pc = "run"
    /\ cfg_value = "desktop"
    /\ context = "generated"
    /\ run_result = "none"

(* ---- C9 ---- *)
(* C9: the cfg predicate is evaluated once, before the call of run; the    *)
(* target and the predicate's value never change afterwards, and whether   *)
(* the updater is in the set is the same in every state from hand-off on.  *)
C9_PredicateOnce ==
    /\ [](cfg_evals <= 1)
    /\ [](pc \in {"plugin_updater", "generate_context", "call_run"} \/ HandedOff
            => cfg_evals = 1 /\ cfg_value # "unset")
    /\ [][/\ target_os' = target_os
          /\ cfg_value # "unset" => cfg_value' = cfg_value /\ cfg_evals' = cfg_evals
          /\ HandedOff => (("updater" \in Members(handed'))
                              <=> ("updater" \in Members(handed)))]_vars

C9_Witness ==
    /\ pc = "call_run"
    /\ cfg_evals = 1
    /\ cfg_value = "mobile"

(* ---- C10 ---- *)
(* C10: with the steps of main and the start-up of run proceeding, every   *)
(* bootstrap calls run and then reaches Running or Failed; it is Failed    *)
(* only when the event loop never ran, and the process ends only by the    *)
(* panic or after run returned Ok, never before run received the full set. *)
C10_RunsOrFails ==
    /\ <>(run_calls = 1)
    /\ (Phase \in {"Unstarted", "Composing", "Launching"})
          ~> (pc \in {"event_loop", "panicked"})
    /\ [](Phase = "Failed" => run_result \in StartupError /\ events = 0)
    /\ [](exited => /\ pc = "panicked" \/ (pc = "returned" /\ run_result = "Ok")
                    /\ run_calls = 1
                    /\ handed = ExpectedSet)

C10_Witness ==
    /\ pc = "event_loop"
    /\ events = 0
    /\ target_os = "macos"

====
